---- MODULE Spec2Model ----
(***************************************************************************)
(* Research Agent Pro (src/app.py): one Streamlit script run of main().    *)
(* The run checks the API key, plans sub-questions from fixed templates,   *)
(* searches them one after another through the Tavily backend, accumulates *)
(* the results and renders them into a Markdown report.                    *)
(*                                                                         *)
(* A search result is modelled by its provenance [q, k]: q is the          *)
(* sub-question it was returned for, k its rank in that response (0 is the *)
(* "AI Synthesis" answer, 1.. are the organic results).  Titles, bodies,   *)
(* scores and dates are text that no operation branches on.  The report is *)
(* the sequence of its blocks instead of one string.  "Results per Query"   *)
(* only travels in the request payload and "Search Depth" is never read;   *)
(* what the backend answers is an input of the model either way.           *)
(***************************************************************************)
EXTENDS Integers, Sequences, FiniteSets, TLC

VARIABLES
    api_key,          \* what get_tavily_client() returns ("" when not configured)
    query,            \* the "Research Topic" text input
    research_breadth, \* the "Research Angles" slider
    pc,               \* position of the script run
    idx,              \* loop index of the search loop (0-based, as in the code)
    sub_questions,    \* what plan_research returned
    all_results,      \* the accumulated results list
    report,           \* what synthesize returned (<<>> before that)
    progress_log,     \* values given to progress_bar.progress, in order
    ui,               \* messages shown to the user, in order
    net_log,          \* HTTP POST requests issued, in order
    search_started,   \* questions search_tavily was called with, in order
    search_log,       \* completed search_tavily calls, in order
    synth_calls,      \* number of calls of synthesize
    synth_args        \* arguments of the last call of synthesize

vars == <<api_key, query, research_breadth, pc, idx, sub_questions, all_results,
          report, progress_log, ui, net_log, search_started, search_log,
          synth_calls, synth_args>>

----------------------------------------------------------------------------
\* Bounds of the model.

\* Most organic results one backend response carries.
MaxOrganic == 2
\* SynthSpec: longest results list given to synthesize.
MaxResults == 11
\* SynthSpec: longest sub-question list given to synthesize.
MaxSubQuestions == 5

----------------------------------------------------------------------------
\* Program constants.

MinBreadth == 2
MaxBreadth == 5
PlanLimit == 4
PlanningProgress == 20
SearchProgressBase == 20
SearchProgressSpan == 60
FinalProgress == 100

base_url == "https://api.tavily.com"

Min(a, b) == IF a < b THEN a ELSE b
Max(a, b) == IF a > b THEN a ELSE b

\* Python's s[start:end] for 0 <= start <= end (clamped to the list).
PySlice(s, start, end) == SubSeq(s, start + 1, Min(end, Len(s)))

NoItem == [q |-> 0, k |-> 0]

----------------------------------------------------------------------------
\* get_tavily_client / check_api_key

\* Mutant: the key check lets an empty key through.
check_api_key_accepts_empty(key) == TRUE

check_api_key(key) == key # ""

----------------------------------------------------------------------------
\* ResearchAgent.plan_research

\* The five templates of the list `questions`, by number.
questions == <<1, 2, 3, 4, 5>>

plan_research == PySlice(questions, 0, PlanLimit)

\* Mutant: the planned questions are not truncated to the requested depth.
Consumed_untruncated(subqs, breadth) == subqs

\* sub_questions[:research_breadth]
Consumed(subqs, breadth) == PySlice(subqs, 0, breadth)

----------------------------------------------------------------------------
\* ResearchAgent.search_tavily

\* What the backend can answer one POST with.  reqexc says whether the failure
\* is raised as a requests.exceptions.RequestException.
RequestErrors == {"connection_error", "timeout", "http_error"}

Responses ==
    [kind : {"ok"}, answer : BOOLEAN, n : 0..MaxOrganic, reqexc : {FALSE}]
    \cup [kind : RequestErrors, answer : {FALSE}, n : {0}, reqexc : {TRUE}]
    \* response.json() fails on a body that is not JSON: requests raises its
    \* own JSONDecodeError, a RequestException.
    \cup [kind : {"bad_json"}, answer : {FALSE}, n : {0}, reqexc : {TRUE}]
    \* JSON that lacks "title", "url" or "content" in a result (KeyError), or
    \* is not an object (AttributeError).
    \cup [kind : {"bad_record"}, answer : {FALSE}, n : {0}, reqexc : {FALSE}]

\* Mutant: the request is posted again twice.
PostRequests_retrying(q) ==
    <<[q |-> q, url |-> base_url], [q |-> q, url |-> base_url],
      [q |-> q, url |-> base_url]>>

\* The requests one call of search_tavily issues.
PostRequests(q) == <<[q |-> q, url |-> base_url]>>

\* The result records built from a well-formed response.
BuildResults(q, resp) ==
    (IF resp.answer THEN <<[q |-> q, k |-> 0]>> ELSE <<>>)
    \o [j \in 1..resp.n |-> [q |-> q, k |-> j]]

\* except requests.exceptions.RequestException
Caught(resp) == resp.reqexc

\* The call's outcome: the list returned, whether an exception left the call,
\* and the st.error shown by it ("" when none).
search_tavily(key, q, resp) ==
    IF key = ""
    THEN [results |-> <<>>, raised |-> FALSE, error |-> "key_not_found"]
    ELSE IF resp.kind = "ok"
    THEN [results |-> BuildResults(q, resp), raised |-> FALSE, error |-> ""]
    ELSE IF Caught(resp)
    THEN [results |-> <<>>, raised |-> FALSE, error |-> "search_api_error"]
    ELSE [results |-> <<>>, raised |-> TRUE, error |-> ""]

----------------------------------------------------------------------------
\* ResearchAgent.synthesize

chunk_size(sub_qs, results) == Max(1, Len(results) \div Len(sub_qs))

\* all_results[start:end] of section i (1-based, as enumerate(.., 1)).
Related(i, sub_qs, results) ==
    LET start == (i - 1) * chunk_size(sub_qs, results)
        end   == start + chunk_size(sub_qs, results) + 1
    IN  PySlice(results, start, end)

\* Mutant: a section without sources gets no placeholder.
SectionBody_no_placeholder(i, related) ==
    [j \in 1..Len(related) |-> [t |-> "source", i |-> i, r |-> related[j]]]

\* The body of one section: its sources, or the placeholder.
SectionBody(i, related) ==
    IF related # <<>>
    THEN [j \in 1..Len(related) |-> [t |-> "source", i |-> i, r |-> related[j]]]
    ELSE <<[t |-> "nosources", i |-> i, r |-> NoItem]>>

RECURSIVE Sections(_, _, _)
Sections(i, sub_qs, results) ==
    IF i > Len(sub_qs) THEN <<>>
    ELSE <<[t |-> "section", i |-> i, r |-> [q |-> sub_qs[i], k |-> 0]]>>
         \o SectionBody(i, Related(i, sub_qs, results))
         \o Sections(i + 1, sub_qs, results)

\* The header block carries total_sources in i.
synthesize(sub_qs, results) ==
    <<[t |-> "header", i |-> Len(results), r |-> NoItem]>>
    \o Sections(1, sub_qs, results)
    \o <<[t |-> "footer", i |-> 0, r |-> NoItem]>>

----------------------------------------------------------------------------
\* main

Init ==
    /\ api_key \in {"", "tvly-key"}
    /\ query \in {"", "CRISPR"}
    /\ research_breadth \in MinBreadth..MaxBreadth
    /\ pc = "check"
    /\ idx = 0
    /\ sub_questions = <<>>
    /\ all_results = <<>>
    /\ report = <<>>
    /\ progress_log = <<>>
    /\ ui = <<>>
    /\ net_log = <<>>
    /\ search_started = <<>>
    /\ search_log = <<>>
    /\ synth_calls = 0
    /\ synth_args = [sub_questions |-> <<>>, all_results |-> <<>>]

\* if not check_api_key(): st.stop()
CheckApiKey ==
    /\ pc = "check"
    /\ IF check_api_key(api_key)
       THEN /\ pc' = "ready"
            /\ ui' = ui
       ELSE /\ pc' = "stopped"
            /\ ui' = ui \o <<"api_key_missing", "api_key_help">>
    /\ UNCHANGED <<api_key, query, research_breadth, idx, sub_questions,
                   all_results, report, progress_log, net_log, search_started,
                   search_log, synth_calls, synth_args>>

\* The button is pressed: the topic is checked, the agent and the progress bar
\* are created.
StartResearch ==
    /\ pc = "ready"
    /\ IF query = ""
       THEN /\ pc' = "returned"
            /\ ui' = Append(ui, "enter_topic")
            /\ progress_log' = progress_log
       ELSE /\ pc' = "plan"
            /\ ui' = ui
            /\ progress_log' = Append(progress_log, 0)
    /\ UNCHANGED <<api_key, query, research_breadth, idx, sub_questions,
                   all_results, report, net_log, search_started, search_log,
                   synth_calls, synth_args>>

\* Phase 1: planning.
PlanPhase ==
    /\ pc = "plan"
    /\ sub_questions' = plan_research
    /\ progress_log' = Append(progress_log, PlanningProgress)
    /\ ui' = Append(ui, "strategy")
    /\ all_results' = <<>>
    /\ idx' = 0
    /\ pc' = "loop"
    /\ UNCHANGED <<api_key, query, research_breadth, report, net_log,
                   search_started, search_log, synth_calls, synth_args>>

\* Mutant: the search share of the bar is not divided by the depth.
SearchProgress_undivided(i, breadth) ==
    SearchProgressBase + (SearchProgressSpan * (i + 1))

\* progress = 20 + (60 * (idx + 1) // research_breadth)
SearchProgress(i, breadth) ==
    SearchProgressBase + ((SearchProgressSpan * (i + 1)) \div breadth)

\* Mutant: new results are put in front of the accumulated ones.
Extend_in_front(acc, results) == results \o acc

\* all_results.extend(results)
Extend(acc, results) == acc \o results

\* Phase 2: search_tavily is entered for the next sub-question and posts its
\* request.
SearchCall ==
    /\ pc = "loop"
    /\ idx < Len(Consumed(sub_questions, research_breadth))
    /\ LET question == Consumed(sub_questions, research_breadth)[idx + 1]
       IN  /\ search_started' = Append(search_started, question)
           /\ net_log' = IF api_key = "" THEN net_log
                         ELSE net_log \o PostRequests(question)
    /\ pc' = "searching"
    /\ UNCHANGED <<api_key, query, research_breadth, idx, sub_questions,
                   all_results, report, progress_log, ui, search_log,
                   synth_calls, synth_args>>

\* search_tavily ends, and the loop body handles what it returned.
SearchReturn ==
    /\ pc = "searching"
    /\ \E resp \in Responses :
         LET question == Consumed(sub_questions, research_breadth)[idx + 1]
             out      == search_tavily(api_key, question, resp)
             shown    == IF out.error = "" THEN <<>> ELSE <<out.error>>
         IN  /\ search_log' = Append(search_log,
                    [q |-> question, kind |-> resp.kind,
                     results |-> out.results, raised |-> out.raised])
             /\ IF out.raised
                THEN /\ pc' = "crashed"
                     /\ ui' = Append(ui, "exception")
                     /\ UNCHANGED <<all_results, progress_log, idx>>
                ELSE /\ pc' = "loop"
                     /\ idx' = idx + 1
                     /\ progress_log' = Append(progress_log,
                            SearchProgress(idx, research_breadth))
                     /\ IF out.results # <<>>
                        THEN /\ all_results' = Extend(all_results, out.results)
                             /\ ui' = ui \o shown \o <<"sources">>
                        ELSE /\ all_results' = all_results
                             /\ ui' = ui \o shown \o <<"failed">>
    /\ UNCHANGED <<api_key, query, research_breadth, sub_questions, report,
                   net_log, search_started, synth_calls, synth_args>>

\* Mutant: the empty accumulated list is not detected.
AllSearchesFailed_never(results) == FALSE

\* if not all_results
AllSearchesFailed(results) == results = <<>>

\* st.error("All searches failed..."); return
AllFailed ==
    /\ pc = "loop"
    /\ idx = Len(Consumed(sub_questions, research_breadth))
    /\ AllSearchesFailed(all_results)
    /\ ui' = Append(ui, "all_searches_failed")
    /\ pc' = "failed"
    /\ UNCHANGED <<api_key, query, research_breadth, idx, sub_questions,
                   all_results, report, progress_log, net_log, search_started,
                   search_log, synth_calls, synth_args>>

\* Phase 3: report = agent.synthesize(query, sub_questions[:research_breadth],
\* all_results)
Synthesize ==
    /\ pc = "loop"
    /\ idx = Len(Consumed(sub_questions, research_breadth))
    /\ ~AllSearchesFailed(all_results)
    /\ synth_calls' = synth_calls + 1
    /\ synth_args' = [sub_questions |-> Consumed(sub_questions, research_breadth),
                      all_results |-> all_results]
    /\ report' = synthesize(Consumed(sub_questions, research_breadth), all_results)
    /\ pc' = "synthesized"
    /\ UNCHANGED <<api_key, query, research_breadth, idx, sub_questions,
                   all_results, progress_log, ui, net_log, search_started,
                   search_log>>

\* progress_bar.progress(100), the status line and the tabs.
Finish ==
    /\ pc = "synthesized"
    /\ progress_log' = Append(progress_log, FinalProgress)
    /\ ui' = ui \o <<"research_complete", "report">>
    /\ pc' = "done"
    /\ UNCHANGED <<api_key, query, research_breadth, idx, sub_questions,
                   all_results, report, net_log, search_started, search_log,
                   synth_calls, synth_args>>

Next ==
    \/ CheckApiKey
    \/ StartResearch
    \/ PlanPhase
    \/ SearchCall
    \/ SearchReturn
    \/ AllFailed
    \/ Synthesize
    \/ Finish

Spec == Init /\ [][Next]_vars

----------------------------------------------------------------------------
\* synthesize as a function of its arguments: any 1..MaxSubQuestions
\* sub-questions and any 0..MaxResults results (told apart by position).

SynthInit ==
    /\ api_key = "tvly-key"
    /\ query = "CRISPR"
    /\ research_breadth = MinBreadth
    /\ pc = "synthesize"
    /\ idx = 0
    /\ sub_questions = <<>>
    /\ all_results = <<>>
    /\ report = <<>>
    /\ progress_log = <<>>
    /\ ui = <<>>
    /\ net_log = <<>>
    /\ search_started = <<>>
    /\ search_log = <<>>
    /\ synth_calls = 0
    /\ \E n \in 1..MaxSubQuestions, m \in 0..MaxResults :
         synth_args = [sub_questions |-> [i \in 1..n |-> i],
                       all_results |-> [p \in 1..m |-> [q |-> 0, k |-> p]]]

SynthCall ==
    /\ pc = "synthesize"
    /\ synth_calls' = synth_calls + 1
    /\ report' = synthesize(synth_args.sub_questions, synth_args.all_results)
    /\ pc' = "synthesized"
    /\ UNCHANGED <<api_key, query, research_breadth, idx, sub_questions,
                   all_results, progress_log, ui, net_log, search_started,
                   search_log, synth_args>>

SynthNext == SynthCall

SynthSpec == SynthInit /\ [][SynthNext]_vars

----------------------------------------------------------------------------
\* Properties.

Range(seq) == {seq[j] : j \in DOMAIN seq}

\* The sub-questions of this run: sub_questions[:research_breadth].
RunQuestions == Consumed(sub_questions, research_breadth)

\* The run went through its whole search loop and ended.
RunOver == pc \in {"failed", "done"}

\* How often an item is rendered as a source of the report.
TimesRendered(item) ==
    Cardinality({b \in DOMAIN report : report[b].t = "source" /\ report[b].r = item})

\* C1: synthesize called with n >= 1 sub-questions and m results renders every
\* result in exactly one section's slice: none is lost, none appears twice.
C1_EveryResultInExactlyOneSlice ==
    pc = "synthesized" =>
        \A p \in DOMAIN synth_args.all_results :
            TimesRendered(synth_args.all_results[p]) = 1

\* C10: every result rendered under section i of a run's report was returned by
\* the search for sub-question i.
C10_SectionShowsOwnResults ==
    report # <<>> =>
        \A b \in DOMAIN report :
            report[b].t = "source" => report[b].r.q = synth_args.sub_questions[report[b].i]

\* C7: for an empty results list the report is the header, then for each
\* sub-question in order its heading followed by the no-sources placeholder
\* and nothing else, then the methodology footer.
C7_EmptyResultsReport ==
    (pc = "synthesized" /\ synth_args.all_results = <<>>) =>
        LET n == Len(synth_args.sub_questions)
        IN  /\ Len(report) = 2 * n + 2
            /\ report[1].t = "header"
            /\ report[Len(report)].t = "footer"
            /\ \A i \in 1..n :
                 /\ report[2 * i].t = "section"
                 /\ report[2 * i].i = i
                 /\ report[2 * i].r.q = synth_args.sub_questions[i]
                 /\ report[2 * i + 1].t = "nosources"
                 /\ report[2 * i + 1].i = i

C7_Witness ==
    /\ pc = "synthesized"
    /\ synth_args.all_results = <<>>
    /\ Len(synth_args.sub_questions) = 4
    /\ Cardinality({b \in DOMAIN report : report[b].t = "nosources"}) = 4

\* C3: the number of sub-questions searched, and of report sections, is
\* min(requested depth, number of questions the planner returned).
NumSections == Cardinality({b \in DOMAIN report : report[b].t = "section"})

C3_ConsumedCount ==
    LET n == Min(research_breadth, Len(sub_questions))
    IN  /\ (RunOver \/ pc = "synthesized") =>
              /\ Len(search_started) = n
              /\ Len(search_log) = n
              /\ \A j \in 1..n : search_log[j].q = sub_questions[j]
        /\ report # <<>> =>
              /\ NumSections = n
              /\ \A j \in 1..n : \E b \in DOMAIN report :
                    /\ report[b].t = "section"
                    /\ report[b].i = j
                    /\ report[b].r.q = sub_questions[j]

\* Depth 5 with the four planned questions: four searches, four sections.
C3_Witness ==
    /\ pc = "done"
    /\ research_breadth = 5
    /\ Len(sub_questions) = 4
    /\ Len(search_log) = 4
    /\ NumSections = 4

\* C4: with the API key missing the run is blocked before any search: no
\* search is started, no request is posted, no report is produced, and once
\* the key check has run the configuration error is on screen and the script
\* has stopped.
C4_MissingKeyBlocksRun ==
    api_key = "" =>
        /\ search_started = <<>>
        /\ net_log = <<>>
        /\ report = <<>>
        /\ synth_calls = 0
        /\ progress_log = <<>>
        /\ pc \in {"check", "stopped"}
        /\ pc = "stopped" => "api_key_missing" \in Range(ui)

C4_Witness ==
    /\ api_key = ""
    /\ pc = "stopped"
    /\ "api_key_missing" \in Range(ui)
    /\ net_log = <<>>

\* C5: a transient provider error during a search (network failure, timeout,
\* failure to parse the response into result records) ends that search with
\* an empty result and a message; no exception leaves the search call and the
\* run is not aborted.
C5_ProviderErrorsAbsorbed ==
    /\ \A j \in DOMAIN search_log :
         search_log[j].kind # "ok" =>
            /\ ~search_log[j].raised
            /\ search_log[j].results = <<>>
            /\ "search_api_error" \in Range(ui)
    /\ pc # "crashed"

\* C6: a search with zero results does not end the run, and the run is
\* reported as failed, without a call of synthesize and without a report,
\* exactly when every consumed sub-question yielded zero results.
ZeroResults(j) == ~search_log[j].raised /\ search_log[j].results = <<>>

AllYieldedZero ==
    /\ RunQuestions # <<>>
    /\ Len(search_log) = Len(RunQuestions)
    /\ \A j \in DOMAIN search_log : ZeroResults(j)

C6_FailedIffAllEmpty ==
    /\ \A j \in DOMAIN search_log :
         (ZeroResults(j) /\ j < Len(RunQuestions)) =>
            \/ Len(search_started) > j
            \/ (pc = "loop" /\ idx = j)
    /\ ("all_searches_failed" \in Range(ui)) <=> (pc = "failed")
    /\ pc = "failed" => (AllYieldedZero /\ synth_calls = 0 /\ report = <<>>)
    /\ pc \in {"synthesized", "done"} =>
         (~AllYieldedZero /\ Len(search_log) = Len(RunQuestions)
          /\ synth_calls = 1 /\ report # <<>>)
    /\ (AllYieldedZero /\ pc # "loop") => pc = "failed"

\* The first search found nothing, and the run still ended with a report.
C6_Witness ==
    /\ pc = "done"
    /\ ZeroResults(1)
    /\ \E j \in DOMAIN search_log : search_log[j].results # <<>>
    /\ report # <<>>

\* Every search found nothing, and the run was reported as failed.
C6_WitnessFailed ==
    /\ pc = "failed"
    /\ AllYieldedZero
    /\ Len(search_log) = 4

\* C8 as stated: the progress values never decrease and lie in 0..100, the
\* value after planning is 25, and 100 is emitted only after synthesize returned.
ProgressMonotone ==
    /\ \A j \in DOMAIN progress_log : progress_log[j] \in 0..100
    /\ \A j \in 1..(Len(progress_log) - 1) : progress_log[j] <= progress_log[j + 1]

FinalOnlyAfterSynthesis ==
    \A j \in DOMAIN progress_log :
        progress_log[j] = 100 => (synth_calls = 1 /\ report # <<>> /\ j = Len(progress_log))

Planned == pc \in {"loop", "searching", "crashed", "failed", "synthesized", "done"}

C8_PlanningProgressIs25 ==
    /\ ProgressMonotone
    /\ FinalOnlyAfterSynthesis
    /\ Planned => (Len(progress_log) >= 2 /\ progress_log[2] = 25)

\* C8, amended: the progress values never decrease and lie in 0..100, the
\* value after planning is 20, and 100 is emitted only after synthesize returned.
C8_Progress ==
    /\ ProgressMonotone
    /\ FinalOnlyAfterSynthesis
    /\ Planned => (Len(progress_log) >= 2 /\ progress_log[1] = 0 /\ progress_log[2] = 20)
    /\ pc = "done" => progress_log[Len(progress_log)] = 100

\* A finished run at depth 5: 0, 20, four search values, 100.
C8_Witness ==
    /\ pc = "done"
    /\ research_breadth = 5
    /\ Len(progress_log) = 7
    /\ progress_log[7] = 100

\* C9 as stated: one search per consumed sub-question, in order and one after
\* another; the accumulated list is the concatenation of what the completed
\* searches returned; synthesize is called once in every run, after the last
\* search, with that list and the truncated sub-questions.
RECURSIVE Returned(_)
Returned(j) == IF j = 0 THEN <<>> ELSE Returned(j - 1) \o search_log[j].results

SearchesInOrder ==
    /\ Len(search_started) <= Len(RunQuestions)
    /\ search_started = SubSeq(RunQuestions, 1, Len(search_started))
    /\ Len(search_started) - Len(search_log) = (IF pc = "searching" THEN 1 ELSE 0)
    /\ \A j \in DOMAIN search_log : search_log[j].q = search_started[j]
    /\ Len(net_log) = Len(search_started)
    /\ \A j \in DOMAIN net_log : net_log[j].q = search_started[j]
    /\ all_results = Returned(Len(search_log))
    /\ RunOver => Len(search_log) = Len(RunQuestions)

SynthesizeAfterLastSearch ==
    /\ synth_calls <= 1
    /\ synth_calls = 1 =>
         /\ Len(search_log) = Len(RunQuestions)
         /\ synth_args = [sub_questions |-> RunQuestions, all_results |-> all_results]

C9_SynthesizeOnceInEveryRun ==
    /\ SearchesInOrder
    /\ SynthesizeAfterLastSearch
    /\ RunOver => synth_calls = 1

\* C9, amended: as above, but synthesize is called at most once: once when a
\* search returned results, and not at all when the accumulated list is empty.
C9_SequentialAccumulation ==
    /\ SearchesInOrder
    /\ SynthesizeAfterLastSearch
    /\ synth_calls = 1 => all_results # <<>>
    /\ pc = "done" => synth_calls = 1
    /\ pc = "failed" => (synth_calls = 0 /\ all_results = <<>>)

\* Four searches, the second without results, then the one call of synthesize.
C9_Witness ==
    /\ pc = "done"
    /\ Len(search_log) = 4
    /\ search_log[1].results # <<>>
    /\ search_log[2].results = <<>>
    /\ search_log[3].results # <<>>
    /\ Len(all_results) = Len(search_log[1].results) + Len(search_log[3].results)
                          + Len(search_log[4].results)
    /\ synth_calls = 1

\* C2 as stated: a search either returns a non-empty primary result without
\* the fallback provider, or has made 3 primary attempts that all produced
\* nothing (an error counts as nothing) and then used the fallback provider.
PrimaryAttempts(q) ==
    Cardinality({j \in DOMAIN net_log : net_log[j].q = q /\ net_log[j].url = base_url})

used_fallback(q) ==
    \E j \in DOMAIN net_log : net_log[j].q = q /\ net_log[j].url # base_url

====
